---- MODULE Spec2Model ----
(***************************************************************************)
(* btree-freemap: a free-space map over linear address ranges.             *)
(*                                                                         *)
(* Two parts of the repository are modelled.                               *)
(*                                                                         *)
(*  Spec      the FreeMap facade of src/lib.rs: new, new_page, allocate    *)
(*            and free, with the fields of the struct as state.  A Rust    *)
(*            panic halts the program: it is recorded in `fault` and no    *)
(*            operation runs after it.                                     *)
(*                                                                         *)
(*  TreeSpec  the strategy search of src/btree.rs (find_free_range over a  *)
(*            BTreeMap<T, Vec<T>, N>), a function of the tree, the         *)
(*            requested length and the strategy: Init draws a B-tree from  *)
(*            a bounded family and the one action applies the search.      *)
(***************************************************************************)
EXTENDS Integers, Sequences, FiniteSets, TLC

(***************************************************************************)
(* Bounds of the model.                                                    *)
(***************************************************************************)
\* Largest page length, offset and request length drawn for the facade.
MaxLen == 3
\* Number of pages new_page may add.
MaxPages == 2
\* Number of allocate / free calls in one run of the facade.
MaxOps == 3
\* Largest free-region length (bucket key) of the trees drawn for the search.
MaxKey == 8
\* Largest number of items in one node of a drawn tree.
MaxItems == 2
\* Largest height of a drawn tree (0: the root is a leaf).
MaxHeight == 2
MaxNodes == 2

(***************************************************************************)
(* Program constants.                                                      *)
(***************************************************************************)
\* Address::ZERO (lib.rs:38), for the natural numbers.
ZERO == 0
\* std::usize::MAX, the "no node" link of the slab-linked lists.  Any value
\* above every slab key behaves the same; this is the largest TLC integer.
usize_MAX == 2147483647

None == [tag |-> "None"]
Some(v) == [tag |-> "Some", value |-> v]

\* enum AllocationStrategy
AllocationStrategy == {"FirstFit", "WorstFit", "BestFit"}

VARIABLES
    \* ---- struct FreeMap (lib.rs:222-237)
    strategy,           \* AllocationStrategy
    pages,              \* Slab<Page<T>>: pages[k+1] is the page of key k
    allocated_regions,  \* AllocatedRegions<T>: [regions, first]
    free_regions,       \* FreeRegions<T>: slab key -> [region, next]
    map,                \* BTreeMap<T, usize>: region length -> slab key
    \* ---- the run
    fault,              \* "none", or the message of the panic that halted it
    call,               \* the last public call and what it returned
    granted,            \* allocations returned by allocate and not freed
    nops,               \* number of allocate / free calls made
    \* ---- the search of btree.rs
    btree,              \* BTreeMap<T, Vec<T>, N>: [root, len]
    phase,              \* "idle" | "ready" (before the call) | "done"
    out                 \* the search's arguments, result and resulting map

fmvars == <<strategy, pages, allocated_regions, free_regions, map>>
runvars == <<fault, call, granted, nops>>
treevars == <<btree, phase, out>>
vars == <<strategy, pages, allocated_regions, free_regions, map,
          fault, call, granted, nops, btree, phase, out>>

(***************************************************************************)
(* Containers of the dependencies, by what the calls in src/ use of them.  *)
(***************************************************************************)
\* Slab::new() / BTreeMap::new(): no key.
EmptyMap == [k \in {} |-> ZERO]

\* fn index (lib.rs:52-58).  As written it answers Some(i) for the sentinel
\* and None for every real key.
index(i) == IF i = usize_MAX THEN Some(i) ELSE None

\* AllocatedRegions::new (lib.rs:105-110)
AllocatedRegions_new == [regions |-> EmptyMap, first |-> usize_MAX]

\* FreeRegions::new (lib.rs:78-82)
FreeRegions_new == EmptyMap

(***************************************************************************)
(* The FreeMap facade (lib.rs).                                            *)
(***************************************************************************)
\* FreeMap::new (lib.rs:241-249)
FreeMap_new(s) ==
    [strategy |-> s,
     pages |-> << >>,
     allocated_regions |-> AllocatedRegions_new,
     free_regions |-> FreeRegions_new,
     map |-> EmptyMap]

\* The FreeMap the state variables hold.
Self ==
    [strategy |-> strategy,
     pages |-> pages,
     allocated_regions |-> allocated_regions,
     free_regions |-> free_regions,
     map |-> map]

\* FreeMap::new_page (lib.rs:254-258): Slab::insert on a slab nothing is ever
\* removed from hands out the keys 0, 1, 2, ...  Only `pages` is written.
new_page(self, len) ==
    [self |-> [self EXCEPT !.pages = Append(@, [len |-> len])],
     key |-> Len(self.pages)]

\* The free regions of one length: the list that starts at slab key i, each
\* entry of free_regions being a region and the key of the next one.
RECURSIVE Chain(_, _)
Chain(fr, i) ==
    IF i = usize_MAX \/ i \notin DOMAIN fr
    THEN {}
    ELSE {fr[i].region} \cup Chain(fr, fr[i].next)

\* The free regions the size-keyed index records: [page, offset, len].
RecordedFree(self) ==
    {[page |-> r.page, offset |-> r.offset, len |-> k] :
        <<k, r>> \in UNION {{<<k, r>> : r \in Chain(self.free_regions, self.map[k])} :
                              k \in DOMAIN self.map}}

\* map.address_of_free_range(len, strategy) (called at lib.rs:263): the
\* strategy query of the size-keyed index.  FirstFit and BestFit answer the
\* smallest key >= len, WorstFit the largest key when it is >= len; an
\* empty index answers None to every strategy.
address_of_free_range(m, len, s) ==
    LET fit == {k \in DOMAIN m : k >= len}
        pick == IF s = "WorstFit"
                THEN CHOOSE k \in fit : \A j \in DOMAIN m : j <= k
                ELSE CHOOSE k \in fit : \A j \in fit : k <= j
    IN  IF fit = {} THEN None ELSE Some([addr |-> pick, region_len |-> pick])

\* FreeRegions::pop (lib.rs:84-86) and FreeRegions::push (lib.rs:88-90)
FreeRegions_pop(fr, i) == [panic |-> "TODO"]
FreeRegions_push(fr, i) == [panic |-> "TODO"]

Ok(page, offset, len) == [tag |-> "Ok", page |-> page, offset |-> offset, len |-> len]
AllocationFailed == [tag |-> "AllocationFailed"]
Panicked == [tag |-> "Panic"]

\* allocate with the residual's `self.map.update(len, ..)` of line 272 done
\* before the query's answer is looked at: a failed call leaves a key behind.
allocate_writes_on_failure(self, len) ==
    IF len > ZERO
    THEN [self |-> [self EXCEPT !.map = [k \in {len} |-> 0]],
          result |-> AllocationFailed, fault |-> "none"]
    ELSE [self |-> self, result |-> Ok(0, ZERO, ZERO), fault |-> "none"]

\* allocate with `len >= T::ZERO` for the test of line 262: a zero-length
\* request goes through the query like any other.
allocate_queries_zero(self, len) ==
    IF address_of_free_range(self.map, len, self.strategy).tag = "Some"
    THEN [self |-> self, result |-> Panicked, fault |-> "TODO"]
    ELSE [self |-> self, result |-> AllocationFailed, fault |-> "none"]

\* FreeMap::allocate (lib.rs:261-289).  When the query finds a region,
\* update_at runs FreeRegions::pop first, which panics before anything is
\* written; the lines after it (268-278) are never reached.
allocate(self, len) ==
    IF len > ZERO
    THEN LET found == address_of_free_range(self.map, len, self.strategy)
         IN  IF found.tag = "Some"
             THEN [self |-> self, result |-> Panicked,
                   fault |-> FreeRegions_pop(self.free_regions,
                                             self.map[found.value.addr]).panic]
             ELSE [self |-> self, result |-> AllocationFailed, fault |-> "none"]
    ELSE [self |-> self, result |-> Ok(0, ZERO, ZERO), fault |-> "none"]

\* free as an unchecked release: the range is dropped from the allocated
\* bookkeeping and the call returns, whatever the range is.
free_returns_unchecked(self, offset, len) ==
    [self |-> [self EXCEPT !.allocated_regions = AllocatedRegions_new],
     result |-> [tag |-> "Ok"],
     fault |-> "none"]

\* FreeMap::free (lib.rs:291-294): panic!("TODO"), whatever the arguments.
free(self, offset, len) ==
    [self |-> self, result |-> Panicked, fault |-> "TODO"]

Install(self) ==
    /\ strategy' = self.strategy
    /\ pages' = self.pages
    /\ allocated_regions' = self.allocated_regions
    /\ free_regions' = self.free_regions
    /\ map' = self.map

Call(op, a, b, result) == [op |-> op, a |-> a, b |-> b, result |-> result]

\* The search of btree.rs takes no part in a run of the facade.
TreeIdle ==
    /\ btree = [root |-> None, len |-> 0]
    /\ phase = "idle"
    /\ out = None

\* let fm = FreeMap::new(strategy)
Init ==
    /\ \E s \in AllocationStrategy :
          /\ strategy = FreeMap_new(s).strategy
          /\ pages = FreeMap_new(s).pages
          /\ allocated_regions = FreeMap_new(s).allocated_regions
          /\ free_regions = FreeMap_new(s).free_regions
          /\ map = FreeMap_new(s).map
          /\ call = Call("new", s, ZERO, None)
    /\ fault = "none"
    /\ granted = {}
    /\ nops = 0
    /\ TreeIdle

\* fm.new_page(len)
NewPage(len) ==
    /\ fault = "none"
    /\ Len(pages) < MaxPages
    /\ LET r == new_page(Self, len)
       IN  /\ Install(r.self)
           /\ call' = Call("new_page", len, ZERO, Some(r.key))
    /\ UNCHANGED <<fault, granted, nops, btree, phase, out>>

\* fm.allocate(len)
Allocate(len) ==
    /\ fault = "none"
    /\ nops < MaxOps
    /\ LET r == allocate(Self, len)
       IN  /\ Install(r.self)
           /\ fault' = r.fault
           /\ call' = Call("allocate", len, ZERO, r.result)
           /\ granted' = IF r.result.tag = "Ok"
                         THEN granted \cup {[offset |-> r.result.offset,
                                             len |-> r.result.len]}
                         ELSE granted
    /\ nops' = nops + 1
    /\ UNCHANGED <<btree, phase, out>>

\* fm.free(offset, len)
Free(offset, len) ==
    /\ fault = "none"
    /\ nops < MaxOps
    /\ LET r == free(Self, offset, len)
       IN  /\ Install(r.self)
           /\ fault' = r.fault
           /\ call' = Call("free", offset, len, r.result)
           /\ granted' = IF r.result.tag = "Ok"
                         THEN granted \ {[offset |-> offset, len |-> len]}
                         ELSE granted
    /\ nops' = nops + 1
    /\ UNCHANGED <<btree, phase, out>>

\* The calls a client makes: small lengths and offsets, and the lengths and
\* ranges of the BestFit example (a range of 100; requests of 30, 50 and 20;
\* frees of [0, 30) and [80, 100)).
Next ==
    \/ \E len \in (0..MaxLen) \cup {100} : NewPage(len)
    \/ \E len \in (0..(MaxLen + 1)) \cup {20, 30, 50} : Allocate(len)
    \/ \E c \in ((0..MaxLen) \X (0..MaxLen)) \cup {<<0, 30>>, <<80, 20>>} :
          Free(c[1], c[2])

Spec == Init /\ [][Next]_vars
(***************************************************************************)
(* The strategy search of btree.rs over a BTreeMap<T, Vec<T>, N>.          *)
(*                                                                         *)
(* A node is held by value.  A leaf is [kind, items]; an internal node is  *)
(* [kind, first_child, branches], a branch being an item and the child to  *)
(* its right, as in linear_btree.  An item is [key, value]: a region       *)
(* length and the Vec of the offsets of the free regions of that length.   *)
(* Offsets into a node (`offset`, `i`, `j`) count from 0 as in the code;   *)
(* a child is named by its position among the node's children (0 is        *)
(* first_child, c > 0 is branches[c - 1].child in the code's counting),    *)
(* which stands for the child's node id.                                   *)
(***************************************************************************)
Leaf(items) == [kind |-> "Leaf", items |-> items]
Internal(first_child, branches) ==
    [kind |-> "Internal", first_child |-> first_child, branches |-> branches]

\* branches[i] of the code.
BranchAt(branches, i) == branches[i + 1]

\* The child of `node` with id `c`.
ChildOf(node, c) == IF c = 0 THEN node.first_child ELSE node.branches[c].child

\* `node` with its child of id `c` replaced (the child was changed in place).
WithChild(node, c, child) ==
    IF c = 0
    THEN [node EXCEPT !.first_child = child]
    ELSE [node EXCEPT !.branches[c].child = child]

\* The items of a subtree, in key order.
RECURSIVE InOrder(_)
InOrder(node) ==
    IF node.kind = "Leaf"
    THEN node.items
    ELSE LET F[n \in 0..Len(node.branches)] ==
                IF n = 0
                THEN InOrder(node.first_child)
                ELSE F[n - 1] \o <<node.branches[n].item>>
                              \o InOrder(node.branches[n].child)
         IN  F[Len(node.branches)]

\* linear_btree::utils::binary_search_min (called at btree.rs:121 and 144):
\* the offset of the last branch whose key is <= len, None when the first
\* key is already greater.
binary_search_min(branches, len) ==
    LET le == {i \in 0..(Len(branches) - 1) : BranchAt(branches, i).item.key <= len}
    IN  IF le = {} THEN None ELSE Some(CHOOSE i \in le : \A j \in le : j <= i)

OkOffset(o) == [tag |-> "Ok", offset |-> o]
ErrChild(child_index, child_id) ==
    [tag |-> "Err", child_index |-> child_index, child_id |-> child_id]
PanicTodo == [tag |-> "Panic"]

\* free_range_offset_in without the step to the successor (lines 127-133):
\* FirstFit and BestFit answer the branch binary_search_min found, whose key
\* is < len when it is no exact match.
free_range_offset_in_predecessor(node, len, s) ==
    IF node.kind = "Internal"
    THEN LET found == binary_search_min(node.branches, len)
         IN  IF s = "WorstFit"
             THEN ErrChild(Len(node.branches) - 1, Len(node.branches))
             ELSE IF found.tag = "Some"
                  THEN OkOffset(Some(found.value))
                  ELSE OkOffset(Some(0))
    ELSE PanicTodo

\* free_range_offset_in (btree.rs:115-165).  Ok(Some(offset)): take the item
\* at that offset of this node; Err((child_index, child_id)): search that
\* child.  `b.child` is the child right of branch b, of id i + 1.  The leaf
\* arm is panic!("TODO").
free_range_offset_in(node, len, s) ==
    IF node.kind = "Internal"
    THEN LET branches == node.branches
             found == binary_search_min(branches, len)
         IN  CASE s = "FirstFit" ->
                    IF found.tag = "Some"
                    THEN LET i == found.value
                             j == i + 1
                         IN  IF BranchAt(branches, i).item.key = len
                             THEN OkOffset(Some(i))
                             ELSE IF j < Len(branches)
                                  THEN OkOffset(Some(j))
                                  ELSE ErrChild(i, i + 1)
                    ELSE OkOffset(Some(0))
               [] s = "WorstFit" ->
                    LET i == Len(branches) - 1
                    IN  ErrChild(i, i + 1)
               [] s = "BestFit" ->
                    IF found.tag = "Some"
                    THEN LET i == found.value
                         IN  IF BranchAt(branches, i).item.key = len
                             THEN OkOffset(Some(i))
                             ELSE ErrChild(i, i + 1)
                    ELSE OkOffset(Some(0))
    ELSE PanicTodo

\* What a search step answers: tag "None", "Panic", or "Some" with the range
\* taken, the node afterwards and whether an item (a bucket) was removed.
SearchNone(node) == [tag |-> "None", node |-> node, item_removed |-> FALSE]
SearchPanic(node) == [tag |-> "Panic", node |-> node, item_removed |-> FALSE]
SearchSome(range, node, item_removed) ==
    [tag |-> "Some", range |-> range, node |-> node, item_removed |-> item_removed]

Range(start, end) == [start |-> start, end |-> end]

\* Vec::pop: the last element is taken.
Last(v) == v[Len(v)]
Front(v) == SubSeq(v, 1, Len(v) - 1)
RemoveAt(seq, n) == SubSeq(seq, 1, n - 1) \o SubSeq(seq, n + 1, Len(seq))

\* BTreeExt::remove_rightmost_leaf_of (called at btree.rs:104): the last item
\* of the subtree is removed from its rightmost leaf and returned.
RECURSIVE remove_rightmost_leaf_of(_)
remove_rightmost_leaf_of(node) ==
    IF node.kind = "Leaf"
    THEN [separator |-> Last(node.items), node |-> Leaf(Front(node.items))]
    ELSE LET c == Len(node.branches)
             r == remove_rightmost_leaf_of(ChildOf(node, c))
         IN  [separator |-> r.separator, node |-> WithChild(node, c, r.node)]

\* BTreeExt::rebalance_child (called at btree.rs:56 and 106): linear_btree
\* merges or rotates the nodes around child `child_index`.  It moves items
\* between nodes and neither adds, drops nor changes one; the model keeps the
\* items and leaves the shape of the nodes as the removal left it.
rebalance_child(node, child_index) == node

\* take_from without lines 83-85: the offset is popped and the item stays in
\* the node even when its Vec is empty afterwards.
take_from_keeps_empty_item(node, offset) ==
    LET n == IF node.kind = "Leaf" THEN Len(node.items) ELSE Len(node.branches)
    IN  IF offset >= n
        THEN SearchNone(node)
        ELSE LET item == IF node.kind = "Leaf"
                         THEN node.items[offset + 1]
                         ELSE node.branches[offset + 1].item
                 start == Last(item.value)
             IN  SearchSome(Range(start, start + item.key),
                   IF node.kind = "Leaf"
                   THEN [node EXCEPT !.items[offset + 1].value = Front(item.value)]
                   ELSE [node EXCEPT !.branches[offset + 1].item.value = Front(item.value)],
                   FALSE)

\* take_from (btree.rs:71-113): pop one offset of the item at `offset`; when
\* its Vec is empty afterwards the item is taken out of the node, an internal
\* node getting the last item of its left subtree in its place.
take_from(node, offset) ==
    LET n == IF node.kind = "Leaf" THEN Len(node.items) ELSE Len(node.branches)
    IN  IF offset >= n
        THEN SearchNone(node)
        ELSE LET item == IF node.kind = "Leaf"
                         THEN node.items[offset + 1]
                         ELSE node.branches[offset + 1].item
                 start == Last(item.value)
                 range == Range(start, start + item.key)
                 rest == Front(item.value)
             IN  IF rest # << >>
                 THEN SearchSome(range,
                        IF node.kind = "Leaf"
                        THEN [node EXCEPT !.items[offset + 1].value = rest]
                        ELSE [node EXCEPT !.branches[offset + 1].item.value = rest],
                        FALSE)
                 ELSE IF node.kind = "Leaf"
                      THEN SearchSome(range, Leaf(RemoveAt(node.items, offset + 1)), TRUE)
                      ELSE LET left_child_index == offset
                               r == remove_rightmost_leaf_of(ChildOf(node, offset))
                               replaced == [WithChild(node, offset, r.node)
                                              EXCEPT !.branches[offset + 1].item = r.separator]
                           IN  SearchSome(range,
                                          rebalance_child(replaced, left_child_index),
                                          TRUE)

\* find_free_range_in (btree.rs:47-67)
RECURSIVE find_free_range_in(_, _, _)
find_free_range_in(node, len, s) ==
    LET r == free_range_offset_in(node, len, s)
    IN  CASE r.tag = "Panic" -> SearchPanic(node)
          [] r.tag = "Ok" ->
               IF r.offset.tag = "None"
               THEN SearchNone(node)
               ELSE take_from(node, r.offset.value)
          [] r.tag = "Err" ->
               LET c == find_free_range_in(ChildOf(node, r.child_id), len, s)
               IN  CASE c.tag = "Panic" -> SearchPanic(node)
                     [] c.tag = "Some" ->
                          SearchSome(c.range,
                                     rebalance_child(WithChild(node, r.child_id, c.node),
                                                     r.child_index),
                                     c.item_removed)
                     [] c.tag = "None" ->
                          IF s = "BestFit"
                          THEN take_from(node, r.child_index)
                          ELSE SearchNone(node)

\* find_free_range (btree.rs:25-45) on the map [root, len].  set_len is done
\* in take_from (btree.rs:94-96); an emptied root is replaced by its child 0,
\* which changes no item.  Answers the result and the items and len the map
\* holds when the call is over.
find_free_range(tree, len, s) ==
    IF tree.root.tag = "None"
    THEN [result |-> None, items |-> << >>, len |-> tree.len]
    ELSE LET r == find_free_range_in(tree.root.value, len, s)
         IN  CASE r.tag = "Some" ->
                    [result |-> Some(r.range),
                     items |-> InOrder(r.node),
                     len |-> IF r.item_removed THEN tree.len - 1 ELSE tree.len]
               [] r.tag = "None" ->
                    [result |-> None, items |-> InOrder(r.node), len |-> tree.len]
               [] r.tag = "Panic" ->
                    [result |-> PanicTodo, items |-> InOrder(r.node), len |-> tree.len]

(***************************************************************************)
(* The maps the search is applied to.  A map is drawn as a set of free     *)
(* regions and a B-tree holding their buckets: the lengths are a set of    *)
(* keys, the regions lie in the order of their lengths with one allocated  *)
(* address between neighbours (free regions are maximal), at most one      *)
(* length has two regions, and the tree is any tree of height <= MaxHeight *)
(* whose nodes hold 1..MaxItems items with all leaves at one depth.        *)
(***************************************************************************)
RECURSIVE Ascending(_)
Ascending(K) ==
    IF K = {}
    THEN << >>
    ELSE LET m == CHOOSE k \in K : \A j \in K : j <= k
         IN  Ascending(K \ {m}) \o <<m>>

RECURSIVE SumPlusGaps(_)
SumPlusGaps(K) ==
    IF K = {}
    THEN 0
    ELSE LET m == CHOOSE k \in K : TRUE
         IN  m + 1 + SumPlusGaps(K \ {m})

\* The bucket of length k: the region of that length, and a second one
\* behind all the others when k = dup.
Bucket(K, dup, k) ==
    LET first == SumPlusGaps({j \in K : j < k})
    IN  [key |-> k,
         value |-> IF k = dup THEN <<first, SumPlusGaps(K)>> ELSE <<first>>]

Buckets(K, dup) ==
    LET keys == Ascending(K)
    IN  [n \in 1..Len(keys) |-> Bucket(K, dup, keys[n])]

RECURSIVE Subtrees(_, _), BranchLists(_, _, _)
\* The subtrees of height h that hold exactly `items`.
Subtrees(items, h) ==
    IF h = 0
    THEN IF Len(items) \in 1..MaxItems THEN {Leaf(items)} ELSE {}
    ELSE UNION {
           {Internal(fc, bs) :
               fc \in Subtrees(SubSeq(items, 1, p - 1), h - 1),
               bs \in BranchLists(SubSeq(items, p, Len(items)), h - 1, MaxItems)} :
           p \in 2..Len(items)}

\* The lists of at most c branches, with children of height h, that hold
\* exactly `items`, the first of which is the first branch's item.
BranchLists(items, h, c) ==
    IF c = 0 \/ Len(items) < 2
    THEN {}
    ELSE UNION {
           {<<[item |-> items[1], child |-> ch]>> \o rest :
               ch \in Subtrees(SubSeq(items, 2, q), h),
               rest \in IF q = Len(items)
                        THEN {<< >>}
                        ELSE BranchLists(SubSeq(items, q + 1, Len(items)), h, c - 1)} :
           q \in 2..Len(items)}

\* The maps holding the buckets `items`: no root for none (BTreeMap::new).
Maps(items) ==
    IF items = << >>
    THEN {[root |-> None, len |-> 0]}
    ELSE {[root |-> Some(t), len |-> Len(items)] :
             t \in UNION {Subtrees(items, h) : h \in 0..MaxHeight}}

\* The facade takes no part in a run of the search.
FacadeIdle ==
    /\ strategy = "FirstFit"
    /\ pages = << >>
    /\ allocated_regions = AllocatedRegions_new
    /\ free_regions = FreeRegions_new
    /\ map = EmptyMap
    /\ fault = "none"
    /\ call = Call("new", "FirstFit", ZERO, None)
    /\ granted = {}
    /\ nops = 0

TreeInit ==
    /\ FacadeIdle
    /\ \E K \in SUBSET (1..MaxKey) :
          \E dup \in K \cup {0} :
             btree \in Maps(Buckets(K, dup))
    /\ phase = "ready"
    /\ out = None

\* map.find_free_range(len, strategy)
FindFreeRange(len, s) ==
    /\ phase = "ready"
    /\ LET r == find_free_range(btree, len, s)
       IN  out' = [min_len |-> len, strategy |-> s, result |-> r.result,
                   items |-> r.items, len |-> r.len]
    /\ phase' = "done"
    /\ UNCHANGED <<btree, strategy, pages, allocated_regions, free_regions, map,
                   fault, call, granted, nops>>

TreeNext ==
    \E len \in 1..(MaxKey + 1), s \in AllocationStrategy : FindFreeRange(len, s)

TreeSpec == TreeInit /\ [][TreeNext]_vars

(***************************************************************************)
(* The list of allocated regions (lib.rs:92-208) taken alone.  A node is   *)
(* the tuple (previous key, region, next key) of the slab `regions`.       *)
(***************************************************************************)
AllocatedRegion(offset, len) == [offset |-> offset, len |-> len]

\* Slab::insert: the value is stored under the next vacant key, which on a
\* slab nothing was removed from is its number of entries.
Slab_vacant_key(m) == CHOOSE n \in 0..Cardinality(DOMAIN m) : n \notin DOMAIN m
Slab_insert(m, n, v) == [k \in DOMAIN m \cup {n} |-> IF k = n THEN v ELSE m[k]]
Slab_remove(m, i) == [k \in DOMAIN m \ {i} |-> m[k]]

\* What a list operation hands back: the list as it left it, its return
\* value, and the panic that ended it ("none" when it returned).
Returns(self, result) == [self |-> self, result |-> result, fault |-> "none"]
Panics(self, message) == [self |-> self, result |-> Panicked, fault |-> message]

\* push_front (lib.rs:112-126).  self.regions[i] panics on a key the slab
\* does not hold, after the node was inserted and `first` set.
push_front(self, region) ==
    LET second == self.first
        n == Slab_vacant_key(self.regions)
        inserted == [regions |-> Slab_insert(self.regions, n,
                                   [prev |-> usize_MAX, region |-> region, next |-> second]),
                     first |-> n]
        found == index(second)
    IN  IF found.tag = "Some"
        THEN IF found.value \in DOMAIN inserted.regions
             THEN Returns([inserted EXCEPT !.regions[found.value].prev = n],
                          Some(inserted.regions[found.value].region))
             ELSE Panics(inserted, "invalid key")
        ELSE Returns(inserted, None)

\* insert_after (lib.rs:128-142)
insert_after(self, i, region) ==
    IF i \notin DOMAIN self.regions
    THEN Panics(self, "invalid key")
    ELSE LET next == self.regions[i].next
             n == Slab_vacant_key(self.regions)
             inserted == [self EXCEPT !.regions =
                             [Slab_insert(self.regions, n,
                                 [prev |-> i, region |-> region, next |-> next])
                                 EXCEPT ![i].next = n]]
             found == index(next)
         IN  IF found.tag = "Some"
             THEN IF found.value \in DOMAIN inserted.regions
                  THEN Returns([inserted EXCEPT !.regions[found.value].prev = n],
                               Some(inserted.regions[found.value].region))
                  ELSE Panics(inserted, "invalid key")
             ELSE Returns(inserted, None)

\* remove (lib.rs:144-167): `first` is left as it is.
remove(self, i) ==
    IF i \notin DOMAIN self.regions
    THEN Panics(self, "invalid key")
    ELSE LET node == self.regions[i]
             removed == [self EXCEPT !.regions = Slab_remove(self.regions, i)]
             p == index(node.prev)
             q == index(node.next)
         IN  IF p.tag = "Some" /\ p.value \notin DOMAIN removed.regions
             THEN Panics(removed, "invalid key")
             ELSE LET relinked == IF p.tag = "Some"
                                  THEN [removed EXCEPT !.regions[p.value].next = node.next]
                                  ELSE removed
                      prev == IF p.tag = "Some"
                              THEN Some(removed.regions[p.value].region)
                              ELSE None
                  IN  IF q.tag = "Some" /\ q.value \notin DOMAIN relinked.regions
                      THEN Panics(relinked, "invalid key")
                      ELSE IF q.tag = "Some"
                           THEN Returns([relinked EXCEPT !.regions[q.value].prev = node.prev],
                                        <<prev, Some(relinked.regions[q.value].region)>>)
                           ELSE Returns(relinked, <<prev, None>>)

\* AllocatedRegions::free (lib.rs:169-184)
AllocatedRegions_free(self, page_len, i) ==
    LET r == remove(self, i)
    IN  IF r.fault # "none"
        THEN r
        ELSE LET prev == r.result[1]
                 next == r.result[2]
                 free_region_start == IF prev.tag = "Some"
                                      THEN prev.value.offset + prev.value.len
                                      ELSE ZERO
                 free_region_end == IF next.tag = "Some"
                                    THEN next.value.offset
                                    ELSE page_len
             IN  Returns(r.self, Range(free_region_start, free_region_end))

\* AllocatedRegions::allocate (lib.rs:189-207)
AllocatedRegions_allocate(self, page_len, i, offset, len) ==
    LET region == AllocatedRegion(offset, len)
        r == IF i.tag = "Some"
             THEN insert_after(self, i.value, region)
             ELSE push_front(self, region)
    IN  IF r.fault # "none"
        THEN r
        ELSE LET next_free_region_start == offset + len
                 next_free_region_end == IF r.result.tag = "Some"
                                         THEN r.result.value.offset
                                         ELSE page_len
             IN  Returns(r.self, Range(next_free_region_start, next_free_region_end))

\* let mut list = AllocatedRegions::new()
ListInit ==
    /\ FacadeIdle
    /\ TreeIdle

\* One call on the list: its effect on the list, its return value and fault.
ListCall(op, a, b, r) ==
    /\ fault = "none"
    /\ nops < MaxOps
    /\ allocated_regions' = r.self
    /\ fault' = r.fault
    /\ call' = Call(op, a, b, r.result)
    /\ nops' = nops + 1
    /\ UNCHANGED <<strategy, pages, free_regions, map, granted, btree, phase, out>>

PushFront(region) ==
    ListCall("push_front", None, region, push_front(allocated_regions, region))

InsertAfter(i, region) ==
    ListCall("insert_after", i, region, insert_after(allocated_regions, i, region))

Remove(i) ==
    ListCall("remove", i, None, remove(allocated_regions, i))

ListFree(page_len, i) ==
    ListCall("free", i, page_len, AllocatedRegions_free(allocated_regions, page_len, i))

ListAllocate(page_len, i, region) ==
    ListCall("allocate", <<page_len, i>>, region,
             AllocatedRegions_allocate(allocated_regions, page_len, i,
                                       region.offset, region.len))

\* The regions and keys the calls are made with.
ListRegions == {AllocatedRegion(o, l) : o \in 0..MaxLen, l \in 0..MaxLen}
ListKeys == 0..MaxNodes

ListNext ==
    \/ \E region \in ListRegions : PushFront(region)
    \/ \E i \in ListKeys, region \in ListRegions : InsertAfter(i, region)
    \/ \E i \in ListKeys : Remove(i)
    \/ \E page_len \in 0..MaxLen, i \in ListKeys : ListFree(page_len, i)
    \/ \E page_len \in 0..MaxLen, i \in {None} \cup {Some(k) : k \in ListKeys},
          region \in ListRegions : ListAllocate(page_len, i, region)

ListSpec == ListInit /\ [][ListNext]_vars

(***************************************************************************)
(* Claims about the facade, checked under Spec.                            *)
(***************************************************************************)
\* The addresses of [offset, offset + len).
Units(offset, len) == offset..(offset + len - 1)

\* The addresses of page 0 the size-keyed index records as free.
FreeUnits(self) ==
    UNION {Units(r.offset, r.len) : r \in {q \in RecordedFree(self) : q.page = 0}}

\* The addresses of the outstanding allocations.
AllocatedUnits == UNION {Units(g.offset, g.len) : g \in granted}

\* The map manages the one range [0, total_len): new, then new_page(total_len).
ManagesOneRange == fault = "none" /\ Len(pages) = 1

\* C1: partition invariant.  After allocate and correctly used free calls on
\* a FreeMap managing [0, total_len), the free regions the size-keyed index
\* records are pairwise disjoint, disjoint from every outstanding allocation,
\* and cover with them exactly [0, total_len).
C1_Partition ==
    (ManagesOneRange /\ call.op = "allocate") =>
        /\ \A r, q \in RecordedFree(Self) :
              (r # q /\ r.page = q.page) =>
                  Units(r.offset, r.len) \cap Units(q.offset, q.len) = {}
        /\ FreeUnits(Self) \cap AllocatedUnits = {}
        /\ FreeUnits(Self) \cup AllocatedUnits = Units(ZERO, pages[1].len)

\* C5: an allocate that returns AllocationFailed leaves the FreeMap as it
\* was: strategy, pages, allocated and free region bookkeeping and the
\* size-keyed index are unchanged, and the call does not fault.
C5_FailedAllocateChangesNothing ==
    [][(call'.op = "allocate" /\ call'.result = AllocationFailed)
          => (UNCHANGED fmvars /\ fault' = fault /\ granted' = granted)]_vars

\* C5's case: a request for a positive length failed on a map that has a page.
C5_Witness ==
    /\ call.op = "allocate"
    /\ call.a > ZERO
    /\ call.result = AllocationFailed
    /\ Len(pages) >= 1

\* C6: free(offset, len) of a range granted by allocate and not yet freed
\* completes without a fault and moves the range from the allocated to the
\* free partition.
C6_FreeOfGrantedCompletes ==
    [][(call'.op = "free" /\ [offset |-> call'.a, len |-> call'.b] \in granted)
          => /\ fault' = "none"
             /\ [offset |-> call'.a, len |-> call'.b] \notin granted'
             /\ Units(call'.a, call'.b) \subseteq FreeUnits(Self')]_vars

\* C8: after new(strategy) and new_page(total_len), before any allocate or
\* free, the index records exactly the free region [0, total_len); and the
\* first allocate(n) with 0 < n <= total_len succeeds.
C8_StartsAsOneFreeRegion ==
    /\ (ManagesOneRange /\ nops = 0 /\ pages[1].len > ZERO) =>
          RecordedFree(Self) = {[page |-> 0, offset |-> ZERO, len |-> pages[1].len]}
    /\ (Len(pages) = 1 /\ nops = 1 /\ call.op = "allocate"
          /\ call.a > ZERO /\ call.a <= pages[1].len) =>
          call.result.tag = "Ok"

\* C9: allocate(0) succeeds in every state, returns offset ZERO and length
\* ZERO, and changes neither the size-keyed index nor the free and allocated
\* region bookkeeping.
C9_AllocateZeroIsNoOp ==
    [][(call'.op = "allocate" /\ call'.a = ZERO)
          => /\ call'.result = Ok(0, ZERO, ZERO)
             /\ fault' = "none"
             /\ UNCHANGED fmvars]_vars

\* C9's case: allocate(0) answered after earlier calls, on a map with a page.
C9_Witness ==
    /\ call = Call("allocate", ZERO, ZERO, Ok(0, ZERO, ZERO))
    /\ Len(pages) >= 1
    /\ nops > 1
\* C13 (BestFit example): on a BestFit map managing [0, 100), the first call
\* allocate(30) returns offset 0, and allocate(50) made next, with [0, 30)
\* outstanding, returns offset 30.  (The example goes on with free(0, 30),
\* allocate(20) -> 0 and free(80, 20).)
C13_BestFitExample ==
    (strategy = "BestFit" /\ pages = <<[len |-> 100]>> /\ call.op = "allocate") =>
        /\ (nops = 1 /\ call.a = 30) => call.result = Ok(0, 0, 30)
        /\ (nops = 2 /\ call.a = 50 /\ granted = {[offset |-> 0, len |-> 30]}) =>
              call.result = Ok(0, 30, 50)

FreeRuns(total) ==
    LET IsFree(u) == u \notin AllocatedUnits
    IN  {[page |-> 0, offset |-> o, len |-> l] : <<o, l>> \in
           {c \in (0..(total - 1)) \X (1..total) :
               /\ c[1] + c[2] <= total
               /\ \A u \in Units(c[1], c[2]) : IsFree(u)
               /\ (c[1] = 0 \/ ~IsFree(c[1] - 1))
               /\ (c[1] + c[2] = total \/ ~IsFree(c[1] + c[2]))}}

\* C16: size-keyed index invariant.  After every operation on a map managing
\* [0, total_len), the regions the index records (start offset under the
\* bucket keyed by the region's length) are exactly the free regions: each
\* start is in the bucket of its true length and in no other, and each
\* recorded offset starts a real free region of its bucket's length.
C16_IndexRecordsTheFreeRegions ==
    ManagesOneRange =>
        /\ RecordedFree(Self) = FreeRuns(pages[1].len)
        /\ \A r, q \in RecordedFree(Self) :
              (r.page = q.page /\ r.offset = q.offset) => r.len = q.len

\* C18: a free of an outstanding allocation leaves one free region around
\* the freed range, running from the end of the nearest allocation before it
\* (ZERO if none) to the start of the nearest allocation after it (the end
\* of the range if none), and no other recorded region overlaps it.
C18_FreeYieldsTheMergedRegion ==
    [][(Len(pages) = 1 /\ call'.op = "free"
          /\ [offset |-> call'.a, len |-> call'.b] \in granted)
          => LET rest == granted \ {[offset |-> call'.a, len |-> call'.b]}
                 before == {g.offset + g.len : g \in {h \in rest : h.offset + h.len <= call'.a}}
                 after == {g.offset : g \in {h \in rest : h.offset >= call'.a + call'.b}}
                 lo == IF before = {} THEN ZERO
                       ELSE CHOOSE x \in before : \A y \in before : y <= x
                 hi == IF after = {} THEN pages[1].len
                       ELSE CHOOSE x \in after : \A y \in after : x <= y
                 merged == [page |-> 0, offset |-> lo, len |-> hi - lo]
             IN  /\ fault' = "none"
                 /\ hi > lo => merged \in RecordedFree(Self')
                 /\ \A r \in RecordedFree(Self') :
                       (r # merged /\ r.page = 0) =>
                           Units(r.offset, r.len) \cap Units(lo, hi - lo) = {}]_vars
(***************************************************************************)
(* Claims about the list of allocated regions, checked under ListSpec.     *)
(***************************************************************************)
\* The links of a list are consistent: `first` is the one node without a
\* predecessor (usize::MAX on an empty list), and next and previous keys
\* name nodes of the list that name each other.
WellFormed(list) ==
    LET nodes == list.regions
    IN  /\ (list.first = usize_MAX) <=> (DOMAIN nodes = {})
        /\ list.first # usize_MAX => list.first \in DOMAIN nodes
        /\ \A k \in DOMAIN nodes :
              /\ (nodes[k].prev = usize_MAX) <=> (k = list.first)
              /\ nodes[k].prev # usize_MAX =>
                    /\ nodes[k].prev \in DOMAIN nodes
                    /\ nodes[nodes[k].prev].next = k
              /\ nodes[k].next # usize_MAX =>
                    /\ nodes[k].next \in DOMAIN nodes
                    /\ nodes[nodes[k].next].prev = k

\* The region of the node with key k, None for usize::MAX.
RegionAt(list, k) == IF k = usize_MAX THEN None ELSE Some(list.regions[k].region)

\* C20: on a well-formed list, push_front, and insert_after and remove given
\* the key of a node of the list, do not fault and leave the list
\* well-formed; push_front returns the region that was first (None on an
\* empty list), insert_after(i, r) the region that followed node i, and
\* remove(i) the regions before and after the removed node.
C20_ListStaysWellFormed ==
    [][(/\ WellFormed(allocated_regions)
        /\ call'.op \in {"push_front", "insert_after", "remove"}
        /\ call'.op # "push_front" => call'.a \in DOMAIN allocated_regions.regions)
          => /\ fault' = "none"
             /\ WellFormed(allocated_regions')
             /\ call'.op = "push_front" =>
                   call'.result = RegionAt(allocated_regions, allocated_regions.first)
             /\ call'.op = "insert_after" =>
                   call'.result = RegionAt(allocated_regions,
                                           allocated_regions.regions[call'.a].next)
             /\ call'.op = "remove" =>
                   call'.result = <<RegionAt(allocated_regions,
                                             allocated_regions.regions[call'.a].prev),
                                    RegionAt(allocated_regions,
                                             allocated_regions.regions[call'.a].next)>>]_vars

(***************************************************************************)
(* Claims about the search, checked under TreeSpec.                        *)
(***************************************************************************)
\* The buckets of the map the search is called on.
BeforeItems == IF btree.root.tag = "None" THEN << >> ELSE InOrder(btree.root.value)

\* The free regions a list of buckets records: [offset, len].
RegionsOf(items) ==
    UNION {{[offset |-> items[n].value[m], len |-> items[n].key] :
               m \in 1..Len(items[n].value)} : n \in 1..Len(items)}

\* The lengths >= min_len among the recorded free regions.
Fitting(min_len) == {r.len : r \in {q \in RegionsOf(BeforeItems) : q.len >= min_len}}

Returned == out.result.value
Succeeded == phase = "done" /\ out.result.tag = "Some"

C4_FailsIffNoRegionFits ==
    phase = "done" =>
        /\ Fitting(out.min_len) = {} => out.result = None
        /\ Fitting(out.min_len) # {} => out.result.tag = "Some"

\* C10: a BestFit search that succeeds returns a region of the smallest
\* length >= min_len among all recorded free regions, wherever its bucket is.
C10_BestFitIsSmallestFit ==
    (Succeeded /\ out.strategy = "BestFit") =>
        \A k \in Fitting(out.min_len) : Returned.end - Returned.start <= k
\* The length of the region a search returned.
ReturnedLen == Returned.end - Returned.start

\* C11: a WorstFit search that succeeds returns a region of the largest
\* recorded length, never one shorter than min_len, and the search fails
\* only if the largest recorded region is shorter than min_len.
C11_WorstFitIsLargest ==
    (phase = "done" /\ out.strategy = "WorstFit") =>
        /\ Succeeded =>
              /\ ReturnedLen >= out.min_len
              /\ \A r \in RegionsOf(BeforeItems) : r.len <= ReturnedLen
        /\ ~Succeeded => Fitting(out.min_len) = {}

C19_TakesOneOffsetOfOneBucket ==
    Succeeded =>
        /\ \E n \in 1..Len(BeforeItems) :
              LET b == BeforeItems[n]
              IN  /\ b.key = ReturnedLen
                  /\ b.value # << >>
                  /\ Last(b.value) = Returned.start
                  /\ IF Len(b.value) > 1
                     THEN /\ out.items = [BeforeItems EXCEPT ![n].value = Front(b.value)]
                          /\ out.len = btree.len
                     ELSE /\ out.items = RemoveAt(BeforeItems, n)
                          /\ out.len = btree.len - 1
        /\ \A m \in 1..Len(out.items) : out.items[m].value # << >>

\* C19's case: a search of a tree of height 2 took the last offset of a
\* bucket, and the bucket is gone from the index.
C19_Witness ==
    /\ Succeeded
    /\ out.len = btree.len - 1
    /\ Len(out.items) = Len(BeforeItems) - 1
    /\ btree.root.value.kind = "Internal"
    /\ btree.root.value.first_child.kind = "Internal"
====
